---- MODULE Spec2Model ----
(***************************************************************************)
(* A model of js/script.js of the college recruitment site: the statistic  *)
(* counters, the fade-in / reveal observers, the in-page navigation and    *)
(* the two mock form submissions.                                          *)
(*                                                                         *)
(* script.js registers its DOMContentLoaded listeners at lines 1, 216,     *)
(* 218, 231, 527 and 529.  Function declarations are hoisted and the last  *)
(* declaration of a name wins, so both bootstrap listeners (lines 1-9 and  *)
(* 231-241) call the declarations of lines 243-526.  Init is the state     *)
(* right after DOMContentLoaded has been dispatched.                       *)
(*                                                                         *)
(* The page markup is not part of the script: the definitions of the       *)
(* section "The page" describe one page that carries the ids and classes   *)
(* the script consumes.                                                    *)
(***************************************************************************)
EXTENDS Integers, Sequences, FiniteSets, TLC

VARIABLES
    \* ---- counters
    counterEls,        \* the counter elements the page holds (getElementById # null)
    counting,          \* the elements that carry the class 'counting'
    counterText,       \* textContent of each counter element
    counterObserved,   \* per counter observer, the elements it observes
    intervals,         \* the running setInterval timers of animateCounter
    started,           \* per element, how often animateCounter was called
    triggeredBy,       \* per element, the observers whose callback started it
    inReports,         \* per element, intersecting entries handled (saturating)
    outReports,        \* per element, whether a non-intersecting entry was handled
    \* ---- fade-in and reveal elements
    shown,             \* the fade-in elements that carry 'show'
    fadeObserved,      \* per fade observer, the elements it observes
    fadeHits,          \* per fade element, intersecting entries handled (saturating)
    fadeBy,            \* per fade element, the observers that handled such an entry
    visibleCls,        \* the reveal elements that carry 'visible'
    revealStyle,       \* per reveal element, its --reveal-delay style variable
    revealObserved,    \* the elements the reveal observer observes
    revealHits,        \* per reveal element, intersecting entries handled (saturating)
    \* ---- navigation
    scrollY,           \* window.scrollY
    activeLinks,       \* the navigation links that carry 'active'
    navUpdated,        \* whether updateActiveNavigation has run
    navbarShown,       \* whether .navbar-collapse carries 'show'
    offcanvasShown,    \* whether the .offcanvas container is shown
    script,            \* the script file the page loads
    clickResult,       \* what the most recent click on an anchor did
    \* ---- forms
    now,               \* the time in ms since the page was loaded
    timers,            \* the pending setTimeout timers, in the order they were set
    value,             \* the value of each form field
    classes,           \* the validity classes each form field carries
    appLabel,          \* the markup label of the application form's submit button
    appBtn,            \* the application form's submit button
    infoBtn,           \* the info request form's submit button (infoSubmitBtn)
    successDiv,        \* the .success-message element
    infoSuccess,       \* the infoSuccess element
    modalInstance,     \* whether applicationModal has a bootstrap.Modal instance
    modalShown,        \* whether the application modal is shown
    console,           \* what console.log has written
    accepted,          \* per form, the number of submissions accepted so far
    lastEvent,         \* the form handler that ran last, and its outcome
    \* ---- the page
    absent,            \* the optional elements the page does not hold
    \* ---- the utilities
    dbCalls,           \* the calls of the debounced function so far
    dbRuns,            \* the invocations of the function debounce wraps
    cardDisplay,       \* per program card, its style.display
    lastCriteria       \* the argument of the last filterPrograms call

counterVars == <<counterEls, counting, counterText, counterObserved, intervals,
                 started, triggeredBy, inReports, outReports>>
fxVars == <<shown, fadeObserved, fadeHits, fadeBy, visibleCls, revealStyle,
            revealObserved, revealHits>>
navVars == <<scrollY, activeLinks, navUpdated, navbarShown, offcanvasShown,
             script, clickResult>>
formVars == <<now, timers, value, classes, appLabel, appBtn, infoBtn, successDiv,
              infoSuccess, modalInstance, modalShown, console, accepted, lastEvent,
              absent>>
utilVars == <<dbCalls, dbRuns, cardDisplay, lastCriteria>>
vars == <<counterVars, fxVars, navVars, formVars, utilVars>>

----------------------------------------------------------------------------
(* Bounds of the model *)

\* the most entries one observer callback receives
MaxEntries == 2
\* the history counters of handled reports saturate here
ReportCap == 2
\* no submission is started after this time (ms), and without a pending
\* timer the clock stops there
MaxTime == 2000
\* the most submissions that are accepted
MaxSubmits == 2
\* the most calls of the debounced function
MaxCalls == 3

----------------------------------------------------------------------------
(* Helpers *)

Min(a, b) == IF a < b THEN a ELSE b

Range(s) == {s[i] : i \in 1..Len(s)}

\* Mutant of RemoveAt: a timer that has fired stays pending.
RemoveAt_Kept(s, i) == s

\* A sequence without its i-th element: a timer that has fired, or was
\* cleared, is no longer pending.
RemoveAt(s, i) == SubSeq(s, 1, i - 1) \o SubSeq(s, i + 1, Len(s))

\* the sequences over S of length 1..n
RECURSIVE SeqsUpTo(_, _)
SeqsUpTo(S, n) ==
    IF n = 0 THEN {}
    ELSE {<<x>> : x \in S}
         \cup {Append(s, x) : s \in SeqsUpTo(S, n - 1), x \in S}

\* A batch the browser can deliver: consecutive entries of one target
\* report a change, so they alternate.
Alternating(entries) ==
    \A i, j \in 1..Len(entries) :
        (/\ i < j
         /\ entries[i].target = entries[j].target
         /\ \A k \in (i + 1)..(j - 1) : entries[k].target # entries[i].target)
        => entries[i].isIntersecting # entries[j].isIntersecting

\* The batches of at most MaxEntries entries for elements of S.
EntriesOf(S) == SeqsUpTo([target : S, isIntersecting : BOOLEAN], MaxEntries)

----------------------------------------------------------------------------
(* The DOMContentLoaded listeners *)

\* The initializers each bootstrap listener calls, in registration order.
MainInitializers ==
    << {"counters", "scroll", "nav"},
       {"counters", "scroll", "nav", "info", "reveal"} >>

\* One observer / listener per call of an initializer.
RunsOf(init) == {i \in 1..Len(MainInitializers) : init \in MainInitializers[i]}

CounterObservers == RunsOf("counters")
FadeObservers == RunsOf("scroll")
NavRuns == RunsOf("nav")

----------------------------------------------------------------------------
(* Number.prototype.toLocaleString, en-US grouping *)

Pad3(n) ==
    IF n < 10 THEN "00" \o ToString(n)
    ELSE IF n < 100 THEN "0" \o ToString(n)
    ELSE ToString(n)

RECURSIVE ToLocaleString(_)
ToLocaleString(n) ==
    IF n < 1000 THEN ToString(n)
    ELSE ToLocaleString(n \div 1000) \o "," \o Pad3(n % 1000)

----------------------------------------------------------------------------
(* Counters: initializeCounters and animateCounter *)

\* The configuration array of initializeCounters.
Counters ==
    << [id |-> "student-count", target |-> 71000,  suffix |-> "+"],
       [id |-> "program-count", target |-> 150,    suffix |-> "+"],
       [id |-> "faculty-count", target |-> 9000,   suffix |-> "+"],
       [id |-> "alumni-count",  target |-> 500000, suffix |-> "+"] >>

CounterIds == {Counters[i].id : i \in 1..Len(Counters)}

\* The pages of the model: each holds one of the counter elements, or none
\* (getElementById gives null for the others).
CounterPages == {{}} \cup {{c} : c \in CounterIds}

\* The text a counter element shows in the markup.
InitialCounterText == "0"

\* animateCounter: increment = target / 50 and stepTime = duration / 50.
Steps == 50
Duration == 2000

\* counters.find(c => c.element === entry.target): the index of the first
\* match, 0 when there is none.
FindCounter(el) ==
    IF \E i \in 1..Len(Counters) : Counters[i].id = el
    THEN CHOOSE i \in 1..Len(Counters) :
            /\ Counters[i].id = el
            /\ \A j \in 1..(i - 1) : Counters[j].id # el
    ELSE 0

\* Mutants of CounterTriggers: without the 'counting' test, and without the
\* isIntersecting test.
CounterTriggers_NoClassTest(cls, el, isIntersecting) ==
    isIntersecting /\ FindCounter(el) # 0

CounterTriggers_AnyEntry(cls, el, isIntersecting) ==
    FindCounter(el) # 0 /\ el \notin cls

\* The two conditions of the observer callback under which it starts the
\* animation; cls is the set of elements that carry 'counting'.
CounterTriggers(cls, el, isIntersecting) ==
    /\ isIntersecting
    /\ FindCounter(el) # 0
    /\ el \notin cls

\* Mutant of ClassListAdd: classList.toggle in place of classList.add.
ClassListAdd_Toggle(cls, el) == IF el \in cls THEN cls \ {el} ELSE cls \cup {el}

\* classList.add of a marker class; cls is the set of elements that carry it.
ClassListAdd(cls, el) == cls \cup {el}

\* Mutant of AnimateCounter: without element.classList.add('counting').
AnimateCounter_NoClass(st, el, target, suffix) ==
    [st EXCEPT !.intervals = Append(@, [element |-> el, target |-> target,
                                        suffix |-> suffix, current50 |-> 0,
                                        ticks |-> 0]),
               !.started = [@ EXCEPT ![el] = @ + 1]]

\* animateCounter up to its setInterval call.  `current` is kept in
\* fiftieths of a unit (current50 = 50 * current), so that current +=
\* target / 50 is exact; every target of Counters is a multiple of 50, for
\* which the script's double arithmetic is exact as well.
AnimateCounter(st, el, target, suffix) ==
    [st EXCEPT !.counting = ClassListAdd(@, el),
               !.intervals = Append(@, [element |-> el, target |-> target,
                                        suffix |-> suffix, current50 |-> 0,
                                        ticks |-> 0]),
               !.started = [@ EXCEPT ![el] = @ + 1]]

\* The body of entries.forEach for one entry of observer o.
HandleCounterEntry(o, st, entry) ==
    LET el == entry.target
        seen == [st EXCEPT
                   !.inReports = [@ EXCEPT ![el] =
                       IF entry.isIntersecting THEN Min(@ + 1, ReportCap) ELSE @],
                   !.outReports = [@ EXCEPT ![el] = @ \/ ~entry.isIntersecting]]
    IN  IF CounterTriggers(st.counting, el, entry.isIntersecting)
        THEN LET c == Counters[FindCounter(el)]
                 a == AnimateCounter(seen, el, c.target, c.suffix)
             IN  [a EXCEPT !.observed = @ \ {el},
                           !.triggeredBy = [@ EXCEPT ![el] = @ \cup {o}]]
        ELSE seen

RECURSIVE HandleCounterEntries(_, _, _)
HandleCounterEntries(o, st, entries) ==
    IF entries = <<>> THEN st
    ELSE HandleCounterEntries(o, HandleCounterEntry(o, st, Head(entries)),
                              Tail(entries))

\* The browser calls the callback of counter observer o with a batch of
\* entries, each for an element o observes.
CounterCallback(o, entries) ==
    /\ o \in CounterObservers
    /\ \A i \in 1..Len(entries) : entries[i].target \in counterObserved[o]
    /\ Alternating(entries)
    /\ LET st == HandleCounterEntries(o,
                    [counting |-> counting, intervals |-> intervals,
                     observed |-> counterObserved[o], started |-> started,
                     triggeredBy |-> triggeredBy, inReports |-> inReports,
                     outReports |-> outReports],
                    entries)
       IN  /\ counting' = st.counting
           /\ intervals' = st.intervals
           /\ counterObserved' = [counterObserved EXCEPT ![o] = st.observed]
           /\ started' = st.started
           /\ triggeredBy' = st.triggeredBy
           /\ inReports' = st.inReports
           /\ outReports' = st.outReports
    /\ UNCHANGED <<counterEls, counterText, fxVars, navVars, formVars, utilVars>>

\* Mutant of CounterDisplay: String(n) instead of n.toLocaleString().
CounterDisplay_NoGrouping(current50, suffix) ==
    ToString(current50 \div Steps) \o suffix

\* Math.floor(current).toLocaleString() + suffix
CounterDisplay(current50, suffix) ==
    ToLocaleString(current50 \div Steps) \o suffix

\* Mutant of NextCurrent50: the increment is added twice.
NextCurrent50_Twice(current50, target) ==
    Min(current50 + 2 * target, Steps * target)

\* Mutant of NextCurrent50: the increment is added twice and current is
\* not set back to target.
NextCurrent50_Overshoot(current50, target) == current50 + 2 * target

\* current += increment; if (current >= target) current = target
NextCurrent50(current50, target) ==
    IF current50 + target >= Steps * target
    THEN Steps * target
    ELSE current50 + target

\* One tick of the i-th running interval.
CounterTick(i) ==
    /\ i \in 1..Len(intervals)
    /\ LET iv == intervals[i]
           c == NextCurrent50(iv.current50, iv.target)
       IN  /\ intervals' =
                 IF iv.current50 + iv.target >= Steps * iv.target
                 THEN RemoveAt(intervals, i)                  \* clearInterval
                 ELSE [intervals EXCEPT ![i].current50 = c, ![i].ticks = @ + 1]
           /\ counterText' = [counterText EXCEPT ![iv.element] =
                                 CounterDisplay(c, iv.suffix)]
    /\ UNCHANGED <<counterEls, counting, counterObserved, started, triggeredBy,
                   inReports, outReports, fxVars, navVars, formVars, utilVars>>

NextCounters ==
    \/ \E o \in CounterObservers : \E entries \in EntriesOf(counterObserved[o]) :
          CounterCallback(o, entries)
    \/ \E i \in 1..Len(intervals) : CounterTick(i)

----------------------------------------------------------------------------
(* Fade-in and reveal elements: initializeScrollEffects and                *)
(* initializeRevealAnimations                                              *)

\* The page: the elements of class fade-in and of class reveal, and the
\* data-delay attribute of the latter (reveal2 has none).
FadeEls == {"fade1", "fade2"}
\* The page: reveal1 has data-delay="150ms", reveal2 has no data-delay
\* attribute and an inline --reveal-delay of 300ms, reveal3 has data-delay="".
RevealEls == {"reveal1", "reveal2", "reveal3"}
HasDataDelay(el) == el \in {"reveal1", "reveal3"}
DataDelay(el) == IF el = "reveal1" THEN "150ms" ELSE ""
InlineRevealDelay(el) == IF el = "reveal2" THEN "300ms" ELSE ""

\* initializeRevealAnimations returns early on a page without reveal
\* elements; otherwise its only call creates the one reveal observer.
RevealObservers == IF RevealEls = {} THEN {} ELSE RunsOf("reveal")

\* The body of the fade observer's entries.forEach for one entry.
HandleFadeEntry(o, st, entry) ==
    IF entry.isIntersecting
    THEN [st EXCEPT !.shown = ClassListAdd(@, entry.target),
                    !.fadeHits = [@ EXCEPT ![entry.target] = Min(@ + 1, ReportCap)],
                    !.fadeBy = [@ EXCEPT ![entry.target] = @ \cup {o}]]
    ELSE st

RECURSIVE HandleFadeEntries(_, _, _)
HandleFadeEntries(o, st, entries) ==
    IF entries = <<>> THEN st
    ELSE HandleFadeEntries(o, HandleFadeEntry(o, st, Head(entries)), Tail(entries))

FadeCallback(o, entries) ==
    /\ o \in FadeObservers
    /\ \A i \in 1..Len(entries) : entries[i].target \in fadeObserved[o]
    /\ Alternating(entries)
    /\ LET st == HandleFadeEntries(o,
                    [shown |-> shown, fadeHits |-> fadeHits, fadeBy |-> fadeBy],
                    entries)
       IN  /\ shown' = st.shown
           /\ fadeHits' = st.fadeHits
           /\ fadeBy' = st.fadeBy
    /\ UNCHANGED <<fadeObserved, visibleCls, revealStyle, revealObserved,
                   revealHits, counterVars, navVars, formVars, utilVars>>

\* Mutant of RevealUnobserve: the callback without obs.unobserve(target).
RevealUnobserve_Missing(observed, el) == observed

\* obs.unobserve(target)
RevealUnobserve(observed, el) == observed \ {el}

\* target.getAttribute('data-delay'): null when the attribute is missing.
GetDataDelay(el) == IF HasDataDelay(el) THEN DataDelay(el) ELSE "null"

\* Mutant of RevealDelayStyle: setProperty without the test of delay.
RevealDelayStyle_Always(el, old) ==
    IF HasDataDelay(el) THEN DataDelay(el) ELSE ""

\* if (delay) target.style.setProperty('--reveal-delay', delay): null and
\* the empty string are falsy.
RevealDelayStyle(el, old) ==
    IF GetDataDelay(el) \notin {"null", ""} THEN GetDataDelay(el) ELSE old

\* The body of the reveal observer's entries.forEach for one entry.
HandleRevealEntry(st, entry) ==
    LET el == entry.target
    IN  IF entry.isIntersecting
        THEN [st EXCEPT
                !.revealStyle = [@ EXCEPT ![el] = RevealDelayStyle(el, @)],
                !.visibleCls = ClassListAdd(@, el),
                !.revealObserved = RevealUnobserve(@, el),
                !.revealHits = [@ EXCEPT ![el] = Min(@ + 1, ReportCap)]]
        ELSE st

RECURSIVE HandleRevealEntries(_, _)
HandleRevealEntries(st, entries) ==
    IF entries = <<>> THEN st
    ELSE HandleRevealEntries(HandleRevealEntry(st, Head(entries)), Tail(entries))

RevealCallback(entries) ==
    /\ RevealObservers # {}
    /\ \A i \in 1..Len(entries) : entries[i].target \in revealObserved
    /\ Alternating(entries)
    /\ LET st == HandleRevealEntries(
                    [revealStyle |-> revealStyle, visibleCls |-> visibleCls,
                     revealObserved |-> revealObserved, revealHits |-> revealHits],
                    entries)
       IN  /\ revealStyle' = st.revealStyle
           /\ visibleCls' = st.visibleCls
           /\ revealObserved' = st.revealObserved
           /\ revealHits' = st.revealHits
    /\ UNCHANGED <<shown, fadeObserved, fadeHits, fadeBy, counterVars, navVars, formVars,
                   utilVars>>

NextFx ==
    \/ \E o \in FadeObservers : \E entries \in EntriesOf(fadeObserved[o]) :
          FadeCallback(o, entries)
    \/ \E entries \in EntriesOf(revealObserved) : RevealCallback(entries)

----------------------------------------------------------------------------
(* Navigation: initializeNavigation and updateActiveNavigation *)

\* The page: its section[id] elements in document order (featured lies
\* inside programs), with offsetTop and clientHeight.
Sections ==
    << [id |-> "about",      offsetTop |-> 300,  clientHeight |-> 600],
       [id |-> "programs",   offsetTop |-> 900,  clientHeight |-> 800],
       [id |-> "featured",   offsetTop |-> 1100, clientHeight |-> 300],
       [id |-> "admissions", offsetTop |-> 1700, clientHeight |-> 500] >>

\* The page: the links.  nav marks the .navbar-nav .nav-link elements of
\* the navbar; sideAdmissions lies in an .offcanvas side menu.
Links ==
    << [id |-> "navAbout",      href |-> "#about",      nav |-> TRUE],
       [id |-> "navPrograms",   href |-> "#programs",   nav |-> TRUE],
       [id |-> "navFeatured",   href |-> "#featured",   nav |-> TRUE],
       [id |-> "navAdmissions", href |-> "#admissions", nav |-> TRUE],
       [id |-> "heroPrograms",  href |-> "#programs",   nav |-> FALSE],
       [id |-> "footContact",   href |-> "#contact",    nav |-> FALSE],
       [id |-> "sideAdmissions", href |-> "#admissions", nav |-> FALSE] >>

\* The page: the links that lie inside the .offcanvas container.
OffcanvasLinks == {"sideAdmissions"}

\* The page: the link that carries 'active' in the markup.
MarkupActive == {"navAbout"}

\* The height of the viewport and the scroll positions the model visits.
InnerHeight == 800
ScrollPositions ==
    {0, 199, 200, 500, 799, 800, 999, 1000, 1150, 1299, 1300, 1599, 1600, 1800,
     2099, 2100}

SectionIx == 1..Len(Sections)
LinkIx == 1..Len(Links)
NavLinks == {i \in LinkIx : Links[i].nav}
\* document.querySelectorAll('a[href^="#"]'): every link of Links is one.
Anchors == LinkIx

\* The offset of the fixed header, and the pre-trigger margin.
HeaderOffset == 80
NavMargin == 100

\* document.querySelector(href): the index of the section with that id, 0
\* when no element has it.
QueryTarget(href) ==
    IF \E i \in SectionIx : "#" \o Sections[i].id = href
    THEN CHOOSE i \in SectionIx : "#" \o Sections[i].id = href
    ELSE 0

\* Mutant of SectionMatches: the range taken around the middle of the
\* viewport instead of its top.
SectionMatches_Center(y, sec) ==
    /\ y + InnerHeight \div 2 >= sec.offsetTop
    /\ y + InnerHeight \div 2 < sec.offsetTop + sec.clientHeight

\* Mutant of SectionMatches: the range with its upper end included.
SectionMatches_Closed(y, sec) ==
    /\ y >= sec.offsetTop - NavMargin
    /\ y <= (sec.offsetTop - NavMargin) + sec.clientHeight

\* window.scrollY >= sectionTop && window.scrollY < sectionTop + sectionHeight
SectionMatches(y, sec) ==
    /\ y >= sec.offsetTop - NavMargin
    /\ y < (sec.offsetTop - NavMargin) + sec.clientHeight

\* Mutant of CurrentSection: the first matching section is kept.
CurrentSection_First(y, i, current) ==
    IF \E k \in i..Len(Sections) : SectionMatches(y, Sections[k])
    THEN Sections[CHOOSE k \in i..Len(Sections) :
                     /\ SectionMatches(y, Sections[k])
                     /\ \A j \in i..(k - 1) : ~SectionMatches(y, Sections[j])].id
    ELSE current

\* sections.forEach: the id of the last matching section, '' without one.
RECURSIVE CurrentSection(_, _, _)
CurrentSection(y, i, current) ==
    IF i > Len(Sections) THEN current
    ELSE CurrentSection(y, i + 1,
            IF SectionMatches(y, Sections[i]) THEN Sections[i].id ELSE current)

\* Mutant of LinkActiveAfter: without link.classList.remove('active').
LinkActiveAfter_NoRemove(l, wasActive, current) ==
    wasActive \/ Links[l].href = "#" \o current

\* navLinks.forEach: whether link l carries 'active' afterwards.
LinkActiveAfter(l, wasActive, current) ==
    Links[l].href = "#" \o current

\* updateActiveNavigation at scroll position y: the links that carry 'active'.
UpdateActiveNavigation(y, active) ==
    LET current == CurrentSection(y, 1, "")
    IN  (active \ {Links[l].id : l \in NavLinks})
        \cup {Links[l].id : l \in {k \in NavLinks :
                 LinkActiveAfter(k, Links[k].id \in active, current)}}

\* The window scrolls to y (by the user or by a smooth scroll) and the
\* scroll listener runs.  Both calls of initializeNavigation add the same
\* function, so the window holds one scroll listener.
Scroll(y) ==
    /\ NavRuns # {}
    /\ scrollY' = y
    /\ activeLinks' = UpdateActiveNavigation(y, activeLinks)
    /\ navUpdated' = TRUE
    /\ UNCHANGED <<navbarShown, offcanvasShown, script, clickResult,
                   counterVars, fxVars, formVars, utilVars>>

\* Mutant of ScrollCommands: without the test of target, a missing
\* target scrolls as an element at the top of the page would.
RECURSIVE ScrollCommands_NoTargetTest(_, _)
ScrollCommands_NoTargetTest(listeners, href) ==
    IF listeners = 0 THEN <<>>
    ELSE (IF QueryTarget(href) # 0
          THEN <<Sections[QueryTarget(href)].offsetTop - HeaderOffset>>
          ELSE <<0 - HeaderOffset>>)
         \o ScrollCommands_NoTargetTest(listeners - 1, href)

\* The window.scrollTo commands (their top) that the click listeners of
\* initializeNavigation issue for one click: each listener issues one when
\* the target exists.
RECURSIVE ScrollCommands(_, _)
ScrollCommands(listeners, href) ==
    IF listeners = 0 THEN <<>>
    ELSE (IF QueryTarget(href) # 0
          THEN <<Sections[QueryTarget(href)].offsetTop - HeaderOffset>>
          ELSE <<>>)
         \o ScrollCommands(listeners - 1, href)

\* The toggler of the navbar (third-party component): a click on it
\* toggles the collapse container.
TogglerClick(isShown) == ~isShown

\* The listeners of lines 218-229 and 529-540, one after the other.
CollapseListeners == 2

RECURSIVE AfterCollapseListeners(_, _)
AfterCollapseListeners(n, isShown) ==
    IF n = 0 THEN isShown
    ELSE AfterCollapseListeners(n - 1,
            IF isShown THEN TogglerClick(isShown) ELSE isShown)

\* Whether one listener of lines 529-540 throws a TypeError on a page
\* without the elements in missing: navbarCollapse.classList of null, or
\* navbarToggler.click() of null when the container is shown.
CollapseListenerThrows(missing, isShown) ==
    \/ "navbarCollapse" \in missing
    \/ (isShown /\ "navbarToggler" \in missing)

\* The exceptions the n collapse listeners raise for one click, and the
\* state of the container after them.
RECURSIVE CollapseOutcome(_, _, _, _)
CollapseOutcome(n, missing, isShown, thrown) ==
    IF n = 0 THEN [shown |-> isShown, thrown |-> thrown]
    ELSE IF CollapseListenerThrows(missing, isShown)
         THEN CollapseOutcome(n - 1, missing, isShown, thrown + 1)
         ELSE CollapseOutcome(n - 1, missing,
                 AfterCollapseListeners(1, isShown), thrown)

\* The script files: js/script.js, and the Rutgers script of
\* unnamed/part_000, which is the second half of js/script.js with an
\* offcanvas branch in the click listener of initializeNavigation.
Scripts == {"js/script.js", "unnamed/part_000"}

\* The collapse listeners a script registers: js/script.js holds the
\* registering block twice, the Rutgers script once.
CollapseListenersOf(s) == IF s = "js/script.js" THEN CollapseListeners ELSE 1

\* The click listeners initializeNavigation leaves on a link: one per call,
\* and the one bootstrap listener of the Rutgers script calls it once.
NavListenersOf(s) == IF s = "js/script.js" THEN Cardinality(NavRuns) ELSE 1

\* How often the n collapse listeners call navbarToggler.click() for one
\* click: a listener calls it when it finds the container shown.
RECURSIVE TogglerClicks(_, _, _)
TogglerClicks(n, missing, isShown) ==
    IF n = 0 THEN 0
    ELSE IF CollapseListenerThrows(missing, isShown)
         THEN TogglerClicks(n - 1, missing, isShown)
         ELSE (IF isShown THEN 1 ELSE 0)
              + TogglerClicks(n - 1, missing, AfterCollapseListeners(1, isShown))

\* The offcanvas container after a click on a link.  The click listener
\* of the Rutgers script hides the .offcanvas that encloses the link; the
\* click listener of js/script.js (lines 294-304) does not look for one,
\* and no other listener of that script does.
OffcanvasAfterClick(s, inOffcanvas, isShown) ==
    IF s = "unnamed/part_000" /\ inOffcanvas THEN FALSE ELSE isShown

\* One click on link a: every click listener of the link runs.
Click(a) ==
    /\ a \in Anchors
    /\ offcanvasShown' =
          OffcanvasAfterClick(script, Links[a].id \in OffcanvasLinks, offcanvasShown)
    /\ navbarShown' =
          IF Links[a].nav
          THEN CollapseOutcome(CollapseListenersOf(script), absent, navbarShown, 0).shown
          ELSE navbarShown
    /\ clickResult' =
          [anchor |-> Links[a].id,
           prevented |-> NavListenersOf(script) > 0,
           cmds |-> ScrollCommands(NavListenersOf(script), Links[a].href),
           thrown |-> IF Links[a].nav
                      THEN CollapseOutcome(CollapseListenersOf(script), absent, navbarShown, 0).thrown
                      ELSE 0,
           togglerClicks |-> IF Links[a].nav
                             THEN TogglerClicks(CollapseListenersOf(script), absent, navbarShown)
                             ELSE 0,
           before |-> [navbarShown |-> navbarShown, offcanvasShown |-> offcanvasShown],
           after |-> [navbarShown |-> navbarShown', offcanvasShown |-> offcanvasShown']]
    /\ UNCHANGED <<scrollY, activeLinks, navUpdated, script,
                   counterVars, fxVars, formVars, utilVars>>

\* The user opens or closes the navbar with the toggler.
UserTogglesNavbar ==
    /\ absent \cap {"navbarToggler", "navbarCollapse"} = {}
    /\ navbarShown' = TogglerClick(navbarShown)
    /\ UNCHANGED <<scrollY, activeLinks, navUpdated, offcanvasShown, script,
                   clickResult, counterVars, fxVars, formVars, utilVars>>

\* The user opens or closes the offcanvas side menu (third-party component).
UserTogglesOffcanvas ==
    /\ offcanvasShown' = ~offcanvasShown
    /\ UNCHANGED <<scrollY, activeLinks, navUpdated, navbarShown, script,
                   clickResult, counterVars, fxVars, formVars, utilVars>>

NextNav ==
    \/ \E y \in ScrollPositions : Scroll(y)
    \/ \E a \in Anchors : Click(a)
    \/ UserTogglesNavbar
    \/ UserTogglesOffcanvas

----------------------------------------------------------------------------
(* The forms: the page *)

\* The fields of the two forms, in document order.
AppFields == <<"firstName", "lastName", "email", "program", "startDate">>
InfoFields == <<"riFirstName", "riLastName", "riEmail", "riInterest", "riMessage">>
AppFieldSet == Range(AppFields)
InfoFieldSet == Range(InfoFields)
Fields == AppFieldSet \cup InfoFieldSet

\* The fields that carry the required attribute.
RequiredFields ==
    {"firstName", "lastName", "email", "program",
     "riFirstName", "riLastName", "riEmail"}

\* The values a user gives a field.
FieldValues(f) ==
    IF f \in {"program", "riInterest"} THEN {"", "nursing"}
    ELSE IF f \in {"email", "riEmail"} THEN {"", "ada@rutgers.edu"}
    ELSE IF f = "riMessage" THEN {"", " Hi "}
    ELSE {"", "Ada"}

\* String.prototype.trim on the values a user gives.
Trim(v) == IF v = " Hi " THEN "Hi" ELSE v

\* The value form.reset() gives a field: no field has a value in the markup.
DefaultValue(f) == ""

\* field.checkValidity(): the constraint validation of the browser.
CheckValidity(f, v) == f \in RequiredFields => v # ""

\* form.checkValidity() of the application form.
AppFormValid(vals) == \A f \in AppFieldSet : CheckValidity(f, vals[f])

\* Markup: a sequence of nodes, a text node or an element with text in it.
Text(t) == [tag |-> "#text", text |-> t]
Element(tag, t) == [tag |-> tag, text |-> t]

\* The labels the submit button of the application form has in the
\* markup: plain text, or an icon followed by text.
AppLabels ==
    { <<Text("Submit Application")>>,
      <<Element("i", ""), Text("Submit Application")>> }

\* The label infoSubmitBtn has in the markup.
InfoLabel == <<Element("i", ""), Text("Send Request")>>

\* '<span class="loading"></span> Submitting...' and '... Sending...'
LoadingSubmitting == <<Element("span", ""), Text(" Submitting...")>>
LoadingSending == <<Element("span", ""), Text(" Sending...")>>

\* node.textContent: the text of the nodes, markup left out.
RECURSIVE TextContent(_)
TextContent(nodes) ==
    IF nodes = <<>> THEN ""
    ELSE Head(nodes).text \o TextContent(Tail(nodes))

\* The nodes that assigning the plain text t to innerHTML gives.
ParseText(t) == IF t = "" THEN <<>> ELSE <<Text(t)>>

SuccessText ==
    "Application submitted successfully! We'll contact you within 2 business days."
InfoSuccessText ==
    "Thank you! Your request has been received. We will respond shortly."

----------------------------------------------------------------------------
(* The forms: timers *)

ApplicationDelay == 2000
InfoRequestDelay == 1500
SuccessDuration == 5000

RECURSIVE GCD(_, _)
GCD(a, b) == IF b = 0 THEN a ELSE GCD(b, a % b)

\* The granularity of the clock: every delay is a multiple of it.
TimeStep == GCD(GCD(ApplicationDelay, InfoRequestDelay), SuccessDuration)

NoPayload == [submittedAt |-> 0]

Timer(kind, due, payload, originalText, originalHTML) ==
    [kind |-> kind, due |-> due, payload |-> payload,
     originalText |-> originalText, originalHTML |-> originalHTML]

Pending(kind) == \E i \in 1..Len(timers) : timers[i].kind = kind

\* Mutant of Fires: a timer runs whether or not its delay has elapsed.
Fires_Early(i) == i \in 1..Len(timers)

\* The timer the browser runs next: one that is due, the earliest first and
\* among equals the one set first.
Fires(i) ==
    /\ i \in 1..Len(timers)
    /\ timers[i].due <= now
    /\ \A j \in 1..Len(timers) :
          \/ timers[j].due > timers[i].due
          \/ (timers[j].due = timers[i].due /\ j >= i)

\* Time passes; a timer that is due runs before it passes further.
Tick ==
    /\ now < MaxTime \/ timers # <<>>
    /\ \A i \in 1..Len(timers) : timers[i].due > now
    /\ now' = now + TimeStep
    /\ lastEvent' = "other"
    /\ UNCHANGED <<timers, value, classes, appLabel, appBtn, infoBtn, successDiv,
                   infoSuccess, modalInstance, modalShown, console, accepted,
                   counterVars, fxVars, navVars, absent, utilVars>>

----------------------------------------------------------------------------
(* The forms: field events *)

ValidityClass(f, v) == IF CheckValidity(f, v) THEN "is-valid" ELSE "is-invalid"

\* Mutant of ValidateField: the class of the earlier validity is kept.
ValidateField_NoRemove(f, v, cls) == cls \cup {ValidityClass(f, v)}

\* validateField
ValidateField(f, v, cls) ==
    (cls \ {"is-valid", "is-invalid"}) \cup {ValidityClass(f, v)}

\* validateBasic
ValidateBasic(f, v, cls) ==
    IF CheckValidity(f, v)
    THEN (cls \ {"is-invalid"}) \cup {"is-valid"}
    ELSE (cls \ {"is-valid"}) \cup {"is-invalid"}

\* The ids initializeInfoRequestForm adds its input listener to.
BasicValidated ==
    IF RunsOf("info") = {} \/ "infoRequestForm" \in absent THEN {}
    ELSE {"riFirstName", "riLastName", "riEmail"} \ absent

\* The classes of field f after an input event with its value v: first the
\* listener of enhanceFormInputs (registered by the listener of line 216),
\* then the one of initializeInfoRequestForm.
AfterInput(f, v, cls) ==
    LET enhanced == IF "is-invalid" \in cls THEN ValidateField(f, v, cls) ELSE cls
    IN  IF f \in BasicValidated THEN ValidateBasic(f, v, enhanced) ELSE enhanced

\* The blur listener of enhanceFormInputs: the user leaves field f.
BlurField(f) ==
    /\ f \in Fields \ absent
    /\ classes' = [classes EXCEPT ![f] = ValidateField(f, value[f], @)]
    /\ lastEvent' = "other"
    /\ UNCHANGED <<now, timers, value, appLabel, appBtn, infoBtn, successDiv,
                   infoSuccess, modalInstance, modalShown, console, accepted,
                   counterVars, fxVars, navVars, absent, utilVars>>

\* The user gives field f the value v.
InputField(f, v) ==
    /\ f \in Fields \ absent
    /\ v \in FieldValues(f)
    /\ v # value[f]
    /\ value' = [value EXCEPT ![f] = v]
    /\ classes' = [classes EXCEPT ![f] = AfterInput(f, v, @)]
    /\ lastEvent' = "other"
    /\ UNCHANGED <<now, timers, appLabel, appBtn, infoBtn, successDiv, infoSuccess,
                   modalInstance, modalShown, console, accepted,
                   counterVars, fxVars, navVars, absent, utilVars>>

----------------------------------------------------------------------------
(* The application form: showApplicationForm, submitApplication,           *)
(* showSuccessMessage, trackEvent                                          *)

\* showApplicationForm: new bootstrap.Modal(...).show().  The button that
\* calls it lies behind the modal while the modal is shown.
ShowApplicationForm ==
    /\ ~modalShown
    /\ IF "applicationModal" \in absent
       THEN \* getElementById gives null: line 367 (if not line 364) throws
            /\ lastEvent' = "show:threw"
            /\ UNCHANGED <<modalInstance, modalShown>>
       ELSE /\ modalInstance' = TRUE
            /\ modalShown' = TRUE
            /\ lastEvent' = "other"
    /\ UNCHANGED <<now, timers, value, classes, appLabel, appBtn, infoBtn,
                   successDiv, infoSuccess, console, accepted,
                   counterVars, fxVars, navVars, absent, utilVars>>

\* The user dismisses the modal.
UserHidesModal ==
    /\ modalShown
    /\ modalShown' = FALSE
    /\ lastEvent' = "other"
    /\ UNCHANGED <<now, timers, value, classes, appLabel, appBtn, infoBtn,
                   successDiv, infoSuccess, modalInstance, console, accepted,
                   counterVars, fxVars, navVars, absent, utilVars>>

\* Mutant of LoadingButton: the button is not disabled.
LoadingButton_Enabled(loading) == [disabled |-> FALSE, content |-> loading]

\* A submit button after an accepted submit: disabled = true, and the
\* loading markup as its innerHTML.
LoadingButton(loading) == [disabled |-> TRUE, content |-> loading]

\* The submissions accepted so far, of both forms.
Submits == accepted["app"] + accepted["info"]

\* Mutant of ApplicationRejected: submitApplication without its validity test.
ApplicationRejected_NoTest(vals) == FALSE

\* if (!form.checkValidity()) { form.reportValidity(); return; }
ApplicationRejected(vals) == ~AppFormValid(vals)

\* The formData object of submitApplication.
FormData(vals, time) ==
    [firstName |-> vals["firstName"], lastName |-> vals["lastName"],
     email |-> vals["email"], program |-> vals["program"],
     startDate |-> vals["startDate"], submittedAt |-> time]

\* A click on the submit button of the application form, which lies in the
\* modal; event.target is the button.  A disabled button receives no click.
SubmitApplication ==
    /\ modalShown \/ "applicationModal" \in absent
    /\ ~appBtn.disabled
    /\ IF ApplicationRejected(value)
       THEN /\ lastEvent' = "app:rejected"
            /\ UNCHANGED <<timers, appBtn, accepted>>
       ELSE /\ Submits < MaxSubmits
            /\ now <= MaxTime
            /\ appBtn' = LoadingButton(LoadingSubmitting)
            /\ timers' = Append(timers,
                  Timer("application", now + ApplicationDelay,
                        FormData(value, now), TextContent(appBtn.content), <<>>))
            /\ accepted' = [accepted EXCEPT !["app"] = @ + 1]
            /\ lastEvent' = "app:accepted"
    /\ UNCHANGED <<now, value, classes, appLabel, infoBtn, successDiv, infoSuccess,
                   modalInstance, modalShown, console,
                   counterVars, fxVars, navVars, absent, utilVars>>

\* Mutant of ResetForm: the fields keep their values.
ResetForm_Kept(vals, fs) == vals

\* Mutant of ResetForm: every field of the page is reset.
ResetForm_All(vals, fs) == [f \in DOMAIN vals |-> DefaultValue(f)]

\* form.reset() of the form with the fields fs.
ResetForm(vals, fs) == [f \in DOMAIN vals |-> IF f \in fs THEN DefaultValue(f) ELSE vals[f]]

\* Mutant of RestoredAppButton: the button is left disabled.
RestoredAppButton_StillDisabled(originalText) ==
    [disabled |-> TRUE, content |-> ParseText(originalText)]

\* submitButton.innerHTML = originalText; submitButton.disabled = false
RestoredAppButton(originalText) ==
    [disabled |-> FALSE, content |-> ParseText(originalText)]

\* Mutant of Tracked: the event is logged without its parameter.
Tracked_NoData(eventName, eventData) ==
    [msg |-> "Event tracked: " \o eventName, data |-> [param |-> ""]]

\* trackEvent
Tracked(eventName, eventData) ==
    [msg |-> "Event tracked: " \o eventName, data |-> [param |-> eventData]]

\* The timer of showSuccessMessage.
HideTimer(time) == Timer("hideSuccess", time + SuccessDuration, NoPayload, "", <<>>)

\* Mutant of LoggedData: the application callback reads the fields anew.
LoggedData_Current(t, vals) ==
    IF t.kind = "application" THEN FormData(vals, t.payload.submittedAt)
    ELSE t.payload

\* The object a completion callback logs: formData / payload of the
\* enclosing call, built before setTimeout.
LoggedData(t, vals) == t.payload

\* The callback of submitApplication's setTimeout.  getInstance gives null
\* for a modal without instance, and modal.hide() then throws: the rest of
\* the callback does not run.
ApplicationTimeout(i) ==
    /\ Fires(i)
    /\ timers[i].kind = "application"
    /\ LET t == timers[i]
           logged == Append(console,
                        [msg |-> "Application submitted:",
                         data |-> LoggedData(t, value)])
       IN  /\ successDiv' = [exists |-> TRUE, text |-> SuccessText, display |-> "block"]
           /\ timers' = Append(RemoveAt(timers, i), HideTimer(now))
           /\ value' = ResetForm(value, AppFieldSet)
           /\ IF modalInstance
              THEN /\ modalShown' = FALSE
                   /\ appBtn' = RestoredAppButton(t.originalText)
                   /\ console' = Append(logged,
                          Tracked("application_submitted",
                                  LoggedData(t, value).program))
                   /\ lastEvent' = "app:completed"
              ELSE /\ console' = logged
                   /\ lastEvent' = "app:threw"
                   /\ UNCHANGED <<modalShown, appBtn>>
    /\ UNCHANGED <<now, classes, appLabel, infoBtn, infoSuccess, modalInstance,
                   accepted, counterVars, fxVars, navVars, absent, utilVars>>

\* The callback of showSuccessMessage's setTimeout.
HideSuccess(i) ==
    /\ Fires(i)
    /\ timers[i].kind = "hideSuccess"
    /\ successDiv' = [successDiv EXCEPT !.display = "none"]
    /\ timers' = RemoveAt(timers, i)
    /\ lastEvent' = "other"
    /\ UNCHANGED <<now, value, classes, appLabel, appBtn, infoBtn, infoSuccess,
                   modalInstance, modalShown, console, accepted,
                   counterVars, fxVars, navVars, absent, utilVars>>

NextApp ==
    \/ \E f \in AppFieldSet : \E v \in FieldValues(f) : InputField(f, v)
    \/ ShowApplicationForm
    \/ UserHidesModal
    \/ SubmitApplication
    \/ \E i \in 1..Len(timers) : ApplicationTimeout(i)
    \/ \E i \in 1..Len(timers) : HideSuccess(i)
    \/ Tick

----------------------------------------------------------------------------
(* The info-request form: submitInfoRequest                                *)

\* const requiredIds = ['riFirstName','riLastName','riEmail']
RequiredOrder == <<"riFirstName", "riLastName", "riEmail">>
RequiredIds == Range(RequiredOrder)

\* The required fields that requiredIds.forEach visits on a page without
\* the elements in missing: field.checkValidity() of null throws, and the
\* fields after it are not visited.
RECURSIVE Visited(_, _)
Visited(ids, missing) ==
    IF ids = <<>> \/ Head(ids) \in missing THEN {}
    ELSE {Head(ids)} \cup Visited(Tail(ids), missing)

\* Mutant of MarkedInvalid: only the first invalid field is marked.
MarkedInvalid_FirstOnly(vals, missing) ==
    {f \in Visited(RequiredOrder, missing) :
        /\ ~CheckValidity(f, vals[f])
        /\ \A i, j \in 1..Len(RequiredOrder) :
              (RequiredOrder[j] = f /\ i < j) =>
                  CheckValidity(RequiredOrder[i], vals[RequiredOrder[i]])}

\* The fields the forEach of submitInfoRequest adds 'is-invalid' to.
MarkedInvalid(vals, missing) ==
    {f \in Visited(RequiredOrder, missing) : ~CheckValidity(f, vals[f])}

\* The valid flag of submitInfoRequest after its forEach.
InfoFormValid(vals) == \A f \in RequiredIds : CheckValidity(f, vals[f])

\* The payload object of submitInfoRequest.
Payload(vals, time) ==
    [firstName |-> Trim(vals["riFirstName"]), lastName |-> Trim(vals["riLastName"]),
     email |-> Trim(vals["riEmail"]), interest |-> vals["riInterest"],
     message |-> Trim(vals["riMessage"]), submittedAt |-> time]

\* A click on infoSubmitBtn.  A disabled button receives no click.
SubmitInfoRequest ==
    /\ ~infoBtn.disabled
    /\ IF "infoRequestForm" \in absent
       THEN \* if (!form) return;
            /\ lastEvent' = "info:noform"
            /\ UNCHANGED <<classes, timers, infoBtn, accepted>>
       ELSE IF RequiredIds \cap absent # {} \/ ~InfoFormValid(value)
       THEN /\ classes' = [f \in DOMAIN classes |->
                  IF f \in MarkedInvalid(value, absent)
                  THEN classes[f] \cup {"is-invalid"} ELSE classes[f]]
            /\ lastEvent' = IF RequiredIds \cap absent # {}
                            THEN "info:threw" ELSE "info:rejected"
            /\ UNCHANGED <<timers, infoBtn, accepted>>
       ELSE IF "infoSubmitBtn" \in absent
       THEN \* btn.innerHTML of null throws
            /\ lastEvent' = "info:threw"
            /\ UNCHANGED <<classes, timers, infoBtn, accepted>>
       ELSE /\ Submits < MaxSubmits
            /\ now <= MaxTime
            /\ infoBtn' = LoadingButton(LoadingSending)
            /\ timers' = Append(timers,
                  Timer("infoRequest", now + InfoRequestDelay,
                        Payload(value, now), "", infoBtn.content))
            /\ accepted' = [accepted EXCEPT !["info"] = @ + 1]
            /\ lastEvent' = "info:accepted"
            /\ UNCHANGED classes
    /\ UNCHANGED <<now, value, appLabel, appBtn, successDiv, infoSuccess,
                   modalInstance, modalShown, console,
                   counterVars, fxVars, navVars, absent, utilVars>>

\* The callback of submitInfoRequest's setTimeout.
InfoRequestTimeout(i) ==
    /\ Fires(i)
    /\ timers[i].kind = "infoRequest"
    /\ LET t == timers[i]
           logged == Append(console,
                        [msg |-> "Info request submitted",
                         data |-> LoggedData(t, value)])
       IN  /\ infoSuccess' = IF "infoSuccess" \in absent THEN infoSuccess
                             ELSE [hidden |-> FALSE, text |-> InfoSuccessText]
           /\ value' = ResetForm(value, InfoFieldSet)
           /\ infoBtn' = [disabled |-> FALSE, content |-> t.originalHTML]
           /\ console' = Append(logged,
                  Tracked("info_request_submitted",
                          LoggedData(t, value).interest))
           /\ timers' = RemoveAt(timers, i)
    /\ lastEvent' = "info:completed"
    /\ UNCHANGED <<now, classes, appLabel, appBtn, successDiv, modalInstance,
                   modalShown, accepted, counterVars, fxVars, navVars, absent,
                   utilVars>>

\* What a user fills a form with: nothing, or a value for every field.
Profile(fs, kind) ==
    [f \in fs |->
        IF kind = "empty" THEN "" ELSE CHOOSE v \in FieldValues(f) : v # ""]

ProfileKinds == {"empty", "complete"}

\* The user types into the fields of one form: an input event for every
\* field whose value changes.
FillForm(fs, kind) ==
    LET prof == Profile(fs, kind)
        held == fs \ absent
    IN  /\ \E f \in held : prof[f] # value[f]
        /\ value' = [f \in DOMAIN value |-> IF f \in held THEN prof[f] ELSE value[f]]
        /\ classes' = [f \in DOMAIN classes |->
              IF f \in held /\ prof[f] # value[f]
              THEN AfterInput(f, prof[f], classes[f]) ELSE classes[f]]
        /\ lastEvent' = "other"
        /\ UNCHANGED <<now, timers, appLabel, appBtn, infoBtn, successDiv, infoSuccess,
                       modalInstance, modalShown, console, accepted,
                       counterVars, fxVars, navVars, absent, utilVars>>

NextForms ==
    \/ \E kind \in ProfileKinds : FillForm(AppFieldSet, kind)
    \/ \E kind \in ProfileKinds : FillForm(InfoFieldSet, kind)
    \/ ShowApplicationForm
    \/ UserHidesModal
    \/ SubmitApplication
    \/ SubmitInfoRequest
    \/ \E i \in 1..Len(timers) : ApplicationTimeout(i)
    \/ \E i \in 1..Len(timers) : InfoRequestTimeout(i)
    \/ \E i \in 1..Len(timers) : HideSuccess(i)
    \/ Tick

----------------------------------------------------------------------------
(* The utilities: debounce *)

\* The inputs: the wait of the debounced function and the arguments of
\* its calls.
DebounceWait == 2 * TimeStep
DebounceArgs == {"a", "b"}

\* Mutant of ClearDebounce: the wrapper without clearTimeout(timeout).
ClearDebounce_Kept(ts) == ts

\* clearTimeout(timeout): the closure holds the id of the timer it set last.
ClearDebounce(ts) == SelectSeq(ts, LAMBDA t : t.kind # "debounce")

\* A call executedFunction(a) of the function debounce returned.
DebouncedCall(a) ==
    /\ Len(dbCalls) < MaxCalls
    /\ now <= MaxTime
    /\ timers' = Append(ClearDebounce(timers),
                        Timer("debounce", now + DebounceWait, [args |-> a], "", <<>>))
    /\ dbCalls' = Append(dbCalls,
                         [at |-> now, args |-> a, cleared |-> Pending("debounce")])
    /\ lastEvent' = "other"
    /\ UNCHANGED <<now, value, classes, appLabel, appBtn, infoBtn, successDiv,
                   infoSuccess, modalInstance, modalShown, console, accepted,
                   absent, dbRuns, cardDisplay, lastCriteria,
                   counterVars, fxVars, navVars>>

\* The callback later: clearTimeout of its own timer, then func(...args).
DebounceLater(i) ==
    /\ Fires(i)
    /\ timers[i].kind = "debounce"
    /\ timers' = RemoveAt(timers, i)
    /\ dbRuns' = Append(dbRuns, [at |-> now, args |-> timers[i].payload.args])
    /\ lastEvent' = "other"
    /\ UNCHANGED <<now, value, classes, appLabel, appBtn, infoBtn, successDiv,
                   infoSuccess, modalInstance, modalShown, console, accepted,
                   absent, dbCalls, cardDisplay, lastCriteria,
                   counterVars, fxVars, navVars>>

----------------------------------------------------------------------------
(* The utilities: filterPrograms *)

\* The page: the elements of #programs with a data-category attribute.
Cards == [card1 |-> "undergraduate", card2 |-> "graduate", card3 |-> "graduate"]
CardIds == DOMAIN Cards

\* The inputs: the criteria filterPrograms is called with.
Criteria == {"all", "undergraduate", "graduate", "online"}

\* Mutant of CardMatches: the test without criteria === 'all'.
CardMatches_NoAll(criteria, category) == category = criteria

\* matches
CardMatches(criteria, category) == criteria = "all" \/ category = criteria

\* filterPrograms(criteria)
FilterPrograms(criteria) ==
    /\ cardDisplay' = [c \in CardIds |->
                          IF CardMatches(criteria, Cards[c]) THEN "" ELSE "none"]
    /\ lastCriteria' = criteria
    /\ UNCHANGED <<dbCalls, dbRuns, counterVars, fxVars, navVars, formVars>>

NextUtils ==
    \/ \E a \in DebounceArgs : DebouncedCall(a)
    \/ \E i \in 1..Len(timers) : DebounceLater(i)
    \/ \E criteria \in Criteria : FilterPrograms(criteria)
    \/ Tick

----------------------------------------------------------------------------
(* The state after DOMContentLoaded *)

NoClick ==
    [anchor |-> "none", prevented |-> FALSE, cmds |-> <<>>, thrown |-> 0,
     togglerClicks |-> 0,
     before |-> [navbarShown |-> FALSE, offcanvasShown |-> FALSE],
     after |-> [navbarShown |-> FALSE, offcanvasShown |-> FALSE]]

InitPage(page) ==
    /\ absent = page
    /\ dbCalls = <<>>
    /\ dbRuns = <<>>
    /\ lastCriteria = "none"
    /\ counterEls \in CounterPages
    /\ counting = {}
    /\ counterText = [e \in counterEls |-> InitialCounterText]
    /\ counterObserved = [o \in CounterObservers |-> counterEls]
    /\ intervals = <<>>
    /\ started = [e \in counterEls |-> 0]
    /\ triggeredBy = [e \in counterEls |-> {}]
    /\ inReports = [e \in counterEls |-> 0]
    /\ outReports = [e \in counterEls |-> FALSE]
    /\ shown = {}
    /\ fadeObserved = [o \in FadeObservers |-> FadeEls]
    /\ fadeHits = [e \in FadeEls |-> 0]
    /\ fadeBy = [e \in FadeEls |-> {}]
    /\ visibleCls = {}
    /\ revealStyle = [e \in RevealEls |-> InlineRevealDelay(e)]
    /\ revealObserved = IF RevealObservers = {} THEN {} ELSE RevealEls
    /\ revealHits = [e \in RevealEls |-> 0]
    /\ scrollY = 0
    /\ activeLinks = MarkupActive
    /\ navUpdated = FALSE
    /\ navbarShown \in (IF "navbarToggler" \in page THEN BOOLEAN ELSE {FALSE})
    /\ offcanvasShown = FALSE
    /\ clickResult = NoClick
    /\ now = 0
    /\ timers = <<>>
    /\ value = [f \in Fields |-> DefaultValue(f)]
    /\ classes = [f \in Fields |-> {}]
    /\ appLabel \in AppLabels
    /\ appBtn = [disabled |-> FALSE, content |-> appLabel]
    /\ infoBtn = [disabled |-> FALSE, content |-> InfoLabel]
    /\ successDiv = [exists |-> FALSE, text |-> "", display |-> "none"]
    /\ infoSuccess = [hidden |-> TRUE, text |-> ""]
    /\ modalInstance = FALSE
    /\ modalShown = FALSE
    /\ console = <<>>
    /\ accepted = [form \in {"app", "info"} |-> 0]
    /\ lastEvent = "other"

\* The fields a user edits one by one: the required fields of the
\* info-request form and the e-mail address of the application form.
EditedFields == RequiredIds \cup {"email"}

NextFields ==
    \/ \E f \in EditedFields : \E v \in FieldValues(f) : InputField(f, v)
    \/ \E f \in EditedFields : BlurField(f)
    \/ ShowApplicationForm
    \/ SubmitApplication
    \/ SubmitInfoRequest
    \/ \E i \in 1..Len(timers) : InfoRequestTimeout(i)
    \/ Tick

\* The page that holds every element the script looks up.
\* The page served with js/script.js.
InitOn(page) ==
    /\ script = "js/script.js"
    /\ cardDisplay = [c \in CardIds |-> ""]
    /\ InitPage(page)

Init == InitOn({})

\* The full page served with either script.
InitScripts ==
    /\ script \in Scripts
    /\ cardDisplay = [c \in CardIds |-> ""]
    /\ InitPage({})

\* The full page with the cards shown, or hidden by the markup.
InitUtils ==
    /\ script = "js/script.js"
    /\ cardDisplay \in {[c \in CardIds |-> d] : d \in {"", "none"}}
    /\ InitPage({})

\* The elements a page may lack.
Optional ==
    {"infoRequestForm", "riLastName", "infoSubmitBtn", "infoSuccess",
     "navbarCollapse", "navbarToggler", "applicationModal"}

\* A page that lacks one of them.
InitSparse == \E e \in Optional : InitOn({e})

\* On a page that lacks an element, the events whose handlers look that
\* element up.
NextSparse ==
    \/ /\ absent \subseteq {"applicationModal"}
       /\ \/ \E kind \in ProfileKinds : FillForm(AppFieldSet, kind)
          \/ ShowApplicationForm
          \/ SubmitApplication
          \/ \E i \in 1..Len(timers) : ApplicationTimeout(i)
          \/ \E i \in 1..Len(timers) : HideSuccess(i)
    \/ /\ absent \subseteq {"infoRequestForm", "riLastName", "infoSubmitBtn", "infoSuccess"}
       /\ \/ \E kind \in ProfileKinds : FillForm(InfoFieldSet, kind)
          \/ SubmitInfoRequest
          \/ \E i \in 1..Len(timers) : InfoRequestTimeout(i)
    \/ /\ absent \subseteq {"navbarCollapse", "navbarToggler"}
       /\ \/ \E a \in NavLinks : Click(a)
          \/ UserTogglesNavbar
    \/ Tick

SpecCounters == Init /\ [][NextCounters]_vars

\* A running interval keeps firing.
SpecCountersFair ==
    SpecCounters /\ WF_vars(\E i \in 1..Len(intervals) : CounterTick(i))
SpecFx == Init /\ [][NextFx]_vars
SpecNav == Init /\ [][NextNav]_vars

SpecScripts == InitScripts /\ [][NextNav]_vars
SpecApp == Init /\ [][NextApp]_vars
SpecForms == Init /\ [][NextForms]_vars
SpecSparse == InitSparse /\ [][NextSparse]_vars
SpecFields == Init /\ [][NextFields]_vars

SpecUtils == InitUtils /\ [][NextUtils]_vars

\* Every kind of event on one page.  The events of the other parts of the
\* script come once the marker classes in question are set: the fade-in
\* and reveal reports when no counter is left to animate, the scroll,
\* click and form events when every fade-in and reveal element has its
\* class as well; intersection reports go on throughout.
CountersSettled == intervals = <<>> /\ counting = counterEls
FxSettled == shown = FadeEls /\ visibleCls = RevealEls

NextMarkers ==
    \/ NextCounters
    \/ CountersSettled /\ NextFx
    \/ CountersSettled /\ FxSettled /\ \E y \in {0, 1150} : Scroll(y)
    \/ CountersSettled /\ FxSettled /\ \E a \in {1, 6} : Click(a)
    \/ CountersSettled /\ FxSettled /\ SubmitInfoRequest

SpecMarkers == Init /\ [][NextMarkers]_vars

\* The browser's clock runs and a timer that is due has its callback run.
SpecFormsFair ==
    /\ SpecForms
    /\ WF_vars(Tick)
    /\ WF_vars(\E i \in 1..Len(timers) : ApplicationTimeout(i))
    /\ WF_vars(\E i \in 1..Len(timers) : InfoRequestTimeout(i))
    /\ WF_vars(\E i \in 1..Len(timers) : HideSuccess(i))

----------------------------------------------------------------------------
(* Properties of the form flows *)

AppRecord(payload) == [msg |-> "Application submitted:", data |-> payload]

AppRecords == {k \in 1..Len(console) : console[k].msg = "Application submitted:"}

AppTimers == {i \in 1..Len(timers) : timers[i].kind = "application"}

\* C1: a submitApplication that runs with every required field valid reads
\* the values into a timer due 2000ms later; the callback runs when exactly
\* 2000ms have passed, and when it has run the values that were submitted
\* are logged, the success message is visible, the fields of the form have
\* their default values and the submit button is enabled.
C1_AcceptedApplication ==
    /\ [][ /\ (modalShown /\ ~appBtn.disabled /\ AppFormValid(value)
                /\ lastEvent' = "app:accepted")
              => /\ Len(timers') = Len(timers) + 1
                 /\ timers'[Len(timers')].kind = "application"
                 /\ timers'[Len(timers')].due = now + ApplicationDelay
                 /\ timers'[Len(timers')].payload = FormData(value, now)
           /\ \A i \in 1..Len(timers) :
                (Fires(i) /\ timers[i].kind = "application"
                   /\ lastEvent' = "app:completed")
                => /\ now' = timers[i].payload.submittedAt + ApplicationDelay
                   /\ console'[Len(console) + 1] = AppRecord(timers[i].payload)
                   /\ successDiv'.exists
                   /\ successDiv'.display = "block"
                   /\ successDiv'.text = SuccessText
                   /\ \A f \in AppFieldSet : value'[f] = DefaultValue(f)
                   /\ ~appBtn'.disabled
         ]_vars
    /\ [](\A i \in AppTimers : now <= timers[i].due)

C1_Witness ==
    /\ lastEvent = "app:completed"
    /\ \E k \in AppRecords :
          /\ console[k].data.firstName = "Ada"
          /\ console[k].data.submittedAt + ApplicationDelay = now
    /\ successDiv.display = "block"
    /\ \A f \in AppFieldSet : value[f] = ""
    /\ ~appBtn.disabled

\* C2: a submitApplication that runs while a required field of the
\* application form is empty changes no field value, leaves the submit
\* button as it is, sets no timer and logs nothing; every logged
\* application belongs to an accepted attempt and has a value in each
\* required field.
C2_RejectedApplication ==
    /\ [][ (modalShown /\ ~appBtn.disabled /\ ~AppFormValid(value)
              /\ lastEvent' \in {"app:rejected", "app:accepted"})
           => /\ lastEvent' = "app:rejected"
              /\ value' = value
              /\ appBtn' = appBtn
              /\ timers' = timers
              /\ console' = console
              /\ accepted' = accepted
         ]_vars
    /\ [](/\ Cardinality(AppRecords) + Cardinality(AppTimers) = accepted["app"]
          /\ \A k \in AppRecords :
                \A f \in AppFieldSet \cap RequiredFields : console[k].data[f] # "")

C2_Witness ==
    /\ lastEvent = "app:rejected"
    /\ value["firstName"] = "Ada"
    /\ value["email"] = ""
    /\ ~appBtn.disabled
    /\ AppTimers = {}

\* The phase of a form's submission that a state shows: submitting while
\* its timer is pending, idle when the submit button is enabled and has its
\* original label.
Phase(kind, btn, label) ==
    IF Pending(kind) THEN "submitting"
    ELSE IF ~btn.disabled /\ btn.content = label THEN "idle"
    ELSE "other"

AppPhase == Phase("application", appBtn, appLabel)
InfoPhase == Phase("infoRequest", infoBtn, InfoLabel)

\* The phases before and after a step with event ev follow the machine of
\* the form: validating, rejected and success lie within a handler.
Follows(before, after, ev, form) ==
    IF ev = form \o ":rejected" THEN before = "idle" /\ after = "idle"
    ELSE IF ev = form \o ":accepted" THEN before = "idle" /\ after = "submitting"
    ELSE IF ev = form \o ":completed" THEN before = "submitting" /\ after = "idle"
    ELSE before = after /\ after \in {"idle", "submitting"}

\* C3: for both forms a submission attempt follows idle -> validating ->
\* (rejected -> idle | submitting -> success -> idle), and every attempt ends
\* in idle: the submit button enabled with its original label and no
\* submission timer pending.
C3_SubmissionPhases ==
    /\ AppPhase = "idle" /\ InfoPhase = "idle"
    /\ [][ /\ Follows(AppPhase, AppPhase', lastEvent', "app")
           /\ Follows(InfoPhase, InfoPhase', lastEvent', "info") ]_vars
    /\ (AppPhase # "idle") ~> (AppPhase = "idle")
    /\ (InfoPhase # "idle") ~> (InfoPhase = "idle")

InfoRecords == {k \in 1..Len(console) : console[k].msg = "Info request submitted"}

InfoTimers == {i \in 1..Len(timers) : timers[i].kind = "infoRequest"}

\* The times at which a success message of a form was shown: the
\* completion times of its logged submissions.
ShownAt(records, delay) == {console[k].data.submittedAt + delay : k \in records}

\* C11: in both form flows the success message is transient: whenever it
\* is visible, it was shown at most 5000ms ago.
C11_TransientSuccess ==
    /\ successDiv.display = "block" =>
          \E t \in ShownAt(AppRecords, ApplicationDelay) : now <= t + SuccessDuration
    /\ ~infoSuccess.hidden =>
          \E t \in ShownAt(InfoRecords, InfoRequestDelay) : now <= t + SuccessDuration

TrackedEvents(n) == {k \in 1..Len(console) : console[k].msg = "Event tracked: " \o n}

\* C13: the completion of an accepted submission logs its values, resets
\* its form and then emits one tracking event, 'application_submitted' with
\* the program or 'info_request_submitted' with the interest that was
\* submitted; the tracking events of a form are as many as its completed
\* submissions, and a rejected submission logs nothing.
C13_OneTrackingEvent ==
    /\ [][ /\ \A i \in 1..Len(timers) :
                (Fires(i) /\ timers[i].kind = "application"
                   /\ lastEvent' = "app:completed")
                => /\ console' = console \o
                        << AppRecord(timers[i].payload),
                           [msg |-> "Event tracked: application_submitted",
                            data |-> [param |-> timers[i].payload.program]] >>
                   /\ \A f \in AppFieldSet : value'[f] = DefaultValue(f)
           /\ \A i \in 1..Len(timers) :
                (Fires(i) /\ timers[i].kind = "infoRequest"
                   /\ lastEvent' = "info:completed")
                => /\ console' = console \o
                        << [msg |-> "Info request submitted", data |-> timers[i].payload],
                           [msg |-> "Event tracked: info_request_submitted",
                            data |-> [param |-> timers[i].payload.interest]] >>
                   /\ \A f \in InfoFieldSet : value'[f] = DefaultValue(f)
           /\ lastEvent' \in {"app:rejected", "info:rejected", "app:accepted",
                              "info:accepted"} => console' = console
         ]_vars
    /\ [](/\ Cardinality(TrackedEvents("application_submitted")) + Cardinality(AppTimers)
               = accepted["app"]
          /\ Cardinality(TrackedEvents("info_request_submitted")) + Cardinality(InfoTimers)
               = accepted["info"])

C13_Witness ==
    /\ Cardinality(TrackedEvents("application_submitted")) = 1
    /\ Cardinality(TrackedEvents("info_request_submitted")) = 1
    /\ \E k \in TrackedEvents("application_submitted") : console[k].data.param = "nursing"
    /\ lastEvent = "info:rejected"

\* C14: on a page that lacks an optional element, no handler raises an
\* exception: neither a form handler or timer callback nor a click
\* listener, and the application callback restores its submit button.
C14_SilentNoOps ==
    /\ lastEvent \notin {"show:threw", "app:threw", "info:threw"}
    /\ clickResult.thrown = 0
    /\ (~Pending("application")) => ~appBtn.disabled

\* C15: once validation has passed, the completion callback of the
\* submission runs, once, and to its end (log record, success display, form
\* reset, submit button restored, tracking event), whatever the user does
\* during the delay.
C15_CompletionRuns ==
    /\ [][ /\ \A i \in 1..Len(timers) :
                (Fires(i) /\ timers[i].kind = "application"
                   /\ lastEvent' \in {"app:completed", "app:threw"})
                => /\ lastEvent' = "app:completed"
                   /\ Len(console') = Len(console) + 2
                   /\ console'[Len(console) + 1] = AppRecord(timers[i].payload)
                   /\ console'[Len(console) + 2].msg =
                         "Event tracked: application_submitted"
                   /\ successDiv'.display = "block"
                   /\ \A f \in AppFieldSet : value'[f] = DefaultValue(f)
                   /\ ~appBtn'.disabled
                   /\ ~Pending("application")'
           /\ \A i \in 1..Len(timers) :
                (Fires(i) /\ timers[i].kind = "infoRequest"
                   /\ lastEvent' \in {"info:completed", "info:threw"})
                => /\ lastEvent' = "info:completed"
                   /\ Len(console') = Len(console) + 2
                   /\ console'[Len(console) + 1].data = timers[i].payload
                   /\ console'[Len(console) + 2].msg =
                         "Event tracked: info_request_submitted"
                   /\ ~infoSuccess'.hidden
                   /\ \A f \in InfoFieldSet : value'[f] = DefaultValue(f)
                   /\ infoBtn' = [disabled |-> FALSE, content |-> InfoLabel]
                   /\ ~Pending("infoRequest")'
         ]_vars
    /\ [](/\ Cardinality(AppRecords) + Cardinality(AppTimers) = accepted["app"]
          /\ Cardinality(InfoRecords) + Cardinality(InfoTimers) = accepted["info"]
          /\ Cardinality(AppTimers) <= 1
          /\ Cardinality(InfoTimers) <= 1)
    /\ Pending("application") ~> ~Pending("application")
    /\ Pending("infoRequest") ~> ~Pending("infoRequest")

C15_Witness ==
    /\ lastEvent = "info:completed"
    /\ Pending("application")
    /\ ~modalShown
    /\ value["firstName"] = ""
    /\ \E k \in InfoRecords : console[k].data.message = "Hi"

\* What a rejected attempt leaves alone in both flows: the submit buttons
\* stay as they are and enabled, no timer is set, nothing is logged.
Aborted ==
    /\ appBtn' = appBtn
    /\ infoBtn' = infoBtn
    /\ timers' = timers
    /\ console' = console
    /\ accepted' = accepted
    /\ value' = value

\* A submitInfoRequest step with an invalid required field: rejected, and
\* every invalid field among riFirstName, riLastName, riEmail carries
\* 'is-invalid' after it.
InfoRejection ==
    (~infoBtn.disabled /\ ~InfoFormValid(value)
       /\ lastEvent' \in {"info:rejected", "info:accepted"})
    => /\ lastEvent' = "info:rejected"
       /\ ~infoBtn'.disabled
       /\ Aborted
       /\ \A f \in RequiredIds :
             IF CheckValidity(f, value[f]) THEN classes'[f] = classes[f]
             ELSE classes'[f] = classes[f] \cup {"is-invalid"}
       /\ \A f \in Fields \ RequiredIds : classes'[f] = classes[f]

\* C17 as stated: a failed validation in either flow marks every invalid
\* required field with 'is-invalid' and aborts the attempt.
C17_AllInvalidMarked ==
    [][ /\ InfoRejection
        /\ (modalShown /\ ~appBtn.disabled /\ ~AppFormValid(value)
              /\ lastEvent' \in {"app:rejected", "app:accepted"})
           => /\ lastEvent' = "app:rejected"
              /\ ~appBtn'.disabled
              /\ Aborted
              /\ \A f \in AppFieldSet \cap RequiredFields :
                    ~CheckValidity(f, value[f]) => "is-invalid" \in classes'[f]
      ]_vars

\* C17 as amended: a failed validation aborts the attempt in both flows;
\* submitInfoRequest marks every invalid field among riFirstName,
\* riLastName, riEmail with 'is-invalid', and submitApplication changes the
\* classes of no field.
C17_InfoMarksAll ==
    [][ /\ InfoRejection
        /\ (modalShown /\ ~appBtn.disabled /\ ~AppFormValid(value)
              /\ lastEvent' \in {"app:rejected", "app:accepted"})
           => /\ lastEvent' = "app:rejected"
              /\ ~appBtn'.disabled
              /\ Aborted
              /\ classes' = classes
      ]_vars

C17_Witness ==
    /\ lastEvent = "info:rejected"
    /\ value["riFirstName"] = "Ada"
    /\ value["riLastName"] = ""
    /\ value["riEmail"] = ""
    /\ "is-invalid" \notin classes["riFirstName"]
    /\ "is-invalid" \in classes["riLastName"]
    /\ "is-invalid" \in classes["riEmail"]
    /\ classes["email"] = {}
    /\ modalShown

ValidityClasses == {"is-valid", "is-invalid"}

\* A blur event on field f leaves it with exactly the class of its validity.
BlurStyles(f) ==
    BlurField(f) => classes'[f] \cap ValidityClasses = {ValidityClass(f, value[f])}

\* An input event on field f: a step of the user that changes its value.
InputOn(f) == lastEvent' = "other" /\ value'[f] # value[f]

\* C18 as stated: after a blur event a control carries exactly the class of
\* its validity; an input event restyles it only if it carries
\* 'is-invalid', and otherwise leaves its classes unchanged.
C18_RestyleOnlyInvalid ==
    [][ \A f \in EditedFields :
          /\ BlurStyles(f)
          /\ InputOn(f) =>
                IF "is-invalid" \in classes[f]
                THEN classes'[f] \cap ValidityClasses = {ValidityClass(f, value'[f])}
                ELSE classes'[f] = classes[f]
      ]_vars

\* C18 as amended: after a blur event a control carries exactly the class
\* of its validity; an input event on riFirstName, riLastName or riEmail
\* always leaves the field with exactly the class of its validity
\* (validateBasic), and on any other control it restyles the control only
\* if it carries 'is-invalid' and otherwise leaves its classes unchanged.
C18_RestyleExceptBasic ==
    [][ \A f \in EditedFields :
          /\ BlurStyles(f)
          /\ InputOn(f) =>
                IF "is-invalid" \in classes[f] \/ f \in BasicValidated
                THEN classes'[f] \cap ValidityClasses = {ValidityClass(f, value'[f])}
                ELSE classes'[f] = classes[f]
      ]_vars

C18_Witness ==
    /\ classes["email"] = {"is-valid"}
    /\ value["email"] = ""
    /\ classes["riEmail"] = {"is-invalid"}
    /\ value["riEmail"] = ""
    /\ classes["riFirstName"] = {"is-valid"}
    /\ lastEvent = "other"

----------------------------------------------------------------------------
(* Properties of the counters *)

HasInterval(e) == \E i \in 1..Len(intervals) : intervals[i].element = e

FinalTexts ==
    [e \in CounterIds |->
        CASE e = "student-count" -> "71,000+"
          [] e = "program-count" -> "150+"
          [] e = "faculty-count" -> "9,000+"
          [] e = "alumni-count"  -> "500,000+"]

\* C4: once the interval of a counter has been cleared, the text of its
\* element is the target with thousands separators followed by the suffix
\* (150 and '+' give "150+", 500000 and '+' give "500,000+").
C4_FinalText ==
    \A e \in counterEls :
        (e \in counting /\ ~HasInterval(e)) => counterText[e] = FinalTexts[e]

C4_Witness ==
    /\ "alumni-count" \in counterEls
    /\ "alumni-count" \in counting
    /\ ~HasInterval("alumni-count")
    /\ counterText["alumni-count"] = "500,000+"

\* C5: animateCounter is called at most once for an element, however often
\* the element is reported again, and an observer whose callback started
\* the animation no longer observes the element.
C5_AnimatesOnce ==
    \A e \in counterEls :
        /\ started[e] <= 1
        /\ \A o \in triggeredBy[e] : e \notin counterObserved[o]

C5_Witness ==
    \E e \in counterEls :
        started[e] = 1 /\ outReports[e] /\ inReports[e] >= 2

\* C6: a counter element that was never reported as intersecting does not
\* carry 'counting', has no interval timer and still shows its markup text.
C6_NeverVisible ==
    \A e \in counterEls :
        inReports[e] = 0 =>
            /\ e \notin counting
            /\ ~HasInterval(e)
            /\ started[e] = 0
            /\ counterText[e] = InitialCounterText

C6_Witness ==
    \E e \in counterEls : inReports[e] = 0 /\ outReports[e]

\* C16: the initializers run once: an element that no observer callback
\* has handled yet is observed by exactly one observer, a counter element
\* by one counter observer and a fade-in element by one fade observer, and
\* initializeNavigation has installed exactly one click handler on each
\* internal anchor link.
C16_InitializedOnce ==
    /\ \A e \in counterEls :
          (inReports[e] = 0 /\ ~outReports[e]) =>
              Cardinality({o \in CounterObservers : e \in counterObserved[o]}) = 1
    /\ \A f \in FadeEls :
          fadeHits[f] = 0 =>
              Cardinality({o \in FadeObservers : f \in fadeObserved[o]}) = 1
    /\ Cardinality(NavRuns) = 1

\* The counter of the configuration with element e.
CounterOf(e) == Counters[FindCounter(e)]

\* floor(k * T / 50), formatted, plus the suffix
RampText(e, k) ==
    ToLocaleString((k * CounterOf(e).target) \div 50) \o CounterOf(e).suffix

----------------------------------------------------------------------------
(* Properties of the navigation *)

TargetExists(href) == \E i \in SectionIx : "#" \o Sections[i].id = href

InRange(y, i) ==
    /\ y >= Sections[i].offsetTop - 100
    /\ y < Sections[i].offsetTop - 100 + Sections[i].clientHeight

NavLinksTo(id) == {Links[l].id : l \in {k \in NavLinks : Links[k].href = "#" \o id}}

\* C7: one click on an internal anchor link whose target exists cancels the
\* default navigation and issues exactly one scrollTo command, to the
\* target's offsetTop minus 80.
C7_OneScrollCommand ==
    \A a \in Anchors :
        (clickResult.anchor = Links[a].id /\ TargetExists(Links[a].href)) =>
            /\ clickResult.prevented
            /\ \E i \in SectionIx :
                  /\ "#" \o Sections[i].id = Links[a].href
                  /\ clickResult.cmds = <<Sections[i].offsetTop - 80>>

\* C8: after a run of updateActiveNavigation at most one navigation link
\* carries 'active', and none does when the scroll position lies in the
\* range of no section.
C8_AtMostOneActive ==
    navUpdated =>
        /\ Cardinality(activeLinks) <= 1
        /\ (\A i \in SectionIx : ~InRange(scrollY, i)) => activeLinks = {}

C8_Witness == navUpdated /\ scrollY = 199 /\ activeLinks = {}

\* C9 as stated: after a scroll event handled while the middle of the
\* viewport lies within section X, exactly the link to X carries 'active'.
C9_ViewportCenter ==
    navUpdated =>
        \A i \in SectionIx :
            (/\ scrollY + InnerHeight \div 2 >= Sections[i].offsetTop
             /\ scrollY + InnerHeight \div 2 <
                   Sections[i].offsetTop + Sections[i].clientHeight)
            => /\ activeLinks = NavLinksTo(Sections[i].id)
               /\ Cardinality(activeLinks) = 1

\* C9 as amended: after a scroll event handled while window.scrollY lies in
\* [offsetTop - 100, offsetTop - 100 + clientHeight) of section X and of no
\* section after X in document order, exactly the link to X carries
\* 'active'.
C9_ScrollRange ==
    navUpdated =>
        \A i \in SectionIx :
            (/\ InRange(scrollY, i)
             /\ \A j \in SectionIx : j > i => ~InRange(scrollY, j))
            => /\ activeLinks = NavLinksTo(Sections[i].id)
               /\ Cardinality(activeLinks) = 1

C9_Witness == navUpdated /\ scrollY = 799 /\ activeLinks = {"navAbout"}

\* C20: after a click on a link the enclosing menu is closed: the
\* collapse container of a navigation link is closed, with the toggler
\* activated once if the container was open and not at all if it was
\* closed, and the offcanvas container of a link inside it is hidden.
C20_MenuClosed ==
    \A a \in Anchors :
        clickResult.anchor = Links[a].id =>
            /\ Links[a].nav =>
                  /\ ~clickResult.after.navbarShown
                  /\ clickResult.before.navbarShown =>
                        clickResult.togglerClicks = 1
                  /\ ~clickResult.before.navbarShown =>
                        clickResult.togglerClicks = 0
            /\ Links[a].id \in OffcanvasLinks =>
                  ~clickResult.after.offcanvasShown

----------------------------------------------------------------------------
(* Properties of the fade-in and reveal observers *)

\* C10 as stated: an element that was reported intersecting and received
\* its class is no longer observed by the observer that reported it, for
\* fade-in and for reveal elements.
C10_BothOneShot ==
    /\ \A f \in FadeEls : \A o \in fadeBy[f] : f \notin fadeObserved[o]
    /\ \A r \in RevealEls : revealHits[r] >= 1 => r \notin revealObserved

\* C10 as amended: a reveal element that was reported intersecting carries
\* 'visible' and is no longer observed; a fade-in element that was reported
\* intersecting carries 'show' and every fade observer still observes it.
C10_RevealOneShot ==
    /\ \A r \in RevealEls :
          revealHits[r] >= 1 => (r \in visibleCls /\ r \notin revealObserved)
    /\ \A f \in FadeEls :
          fadeHits[f] >= 1 =>
              (f \in shown /\ \A o \in FadeObservers : f \in fadeObserved[o])

C10_Witness ==
    /\ \E r \in RevealEls : revealHits[r] = 1 /\ r \in visibleCls
    /\ \E f \in FadeEls : fadeHits[f] >= 2 /\ f \in shown

\* C21: a reveal element that was reported intersecting carries 'visible',
\* and its --reveal-delay is its data-delay value exactly when it has a
\* non-empty data-delay attribute; otherwise its style is as the markup
\* left it.  An element not yet reported has neither the class nor a
\* changed style.
C21_RevealDelay ==
    \A r \in RevealEls :
        /\ revealHits[r] >= 1 =>
              /\ r \in visibleCls
              /\ revealStyle[r] =
                    IF HasDataDelay(r) /\ DataDelay(r) # ""
                    THEN DataDelay(r) ELSE InlineRevealDelay(r)
        /\ revealHits[r] = 0 =>
              (r \notin visibleCls /\ revealStyle[r] = InlineRevealDelay(r))

C21_Witness ==
    /\ \A r \in RevealEls : revealHits[r] = 1
    /\ revealStyle["reveal1"] = "150ms"
    /\ revealStyle["reveal2"] = "300ms"
    /\ revealStyle["reveal3"] = ""

----------------------------------------------------------------------------
(* Properties of the utilities *)

\* The elements of a set of numbers in ascending order.
RECURSIVE Ascending(_)
Ascending(S) ==
    IF S = {} THEN <<>>
    ELSE LET m == CHOOSE x \in S : \A y \in S : x <= y
         IN  <<m>> \o Ascending(S \ {m})

\* The invocations to expect by now from the calls numbered in Last: one
\* per call, DebounceWait after it and with its arguments.  Late tells
\* whether the invocation due at this very instant has run.
ExpectedRuns(Last, late) ==
    LET S == Ascending({k \in Last :
                 \/ dbCalls[k].at + DebounceWait < now
                 \/ (late /\ dbCalls[k].at + DebounceWait = now)})
    IN  [k \in 1..Len(S) |-> [at |-> dbCalls[S[k]].at + DebounceWait,
                               args |-> dbCalls[S[k]].args]]

\* The calls that end a burst: the next call, if any, comes DebounceWait or
\* more after them.
BurstEnds ==
    {j \in 1..Len(dbCalls) :
        j = Len(dbCalls) \/ dbCalls[j + 1].at - dbCalls[j].at >= DebounceWait}

\* The calls whose timer no later call cleared.
Uncleared ==
    {j \in 1..Len(dbCalls) : j = Len(dbCalls) \/ ~dbCalls[j + 1].cleared}

\* C22 as stated: func has been invoked exactly once for every burst of
\* calls less than wait apart, wait ms after the last call of the burst
\* and with the arguments of that call.
C22_OncePerBurst ==
    dbRuns \in {ExpectedRuns(BurstEnds, FALSE), ExpectedRuns(BurstEnds, TRUE)}

\* C22 as amended: func has been invoked exactly once for every call whose
\* timer was still pending when no later call came, wait ms after that
\* call and with its arguments; a call less than wait ms after the
\* previous one always finds the timer pending and clears it.
C22_OncePerUnclearedCall ==
    /\ dbRuns \in {ExpectedRuns(Uncleared, FALSE), ExpectedRuns(Uncleared, TRUE)}
    /\ \A k \in 2..Len(dbCalls) :
          dbCalls[k].at - dbCalls[k - 1].at < DebounceWait => dbCalls[k].cleared

C22_Witness ==
    /\ Len(dbCalls) = 3
    /\ dbCalls[2].at - dbCalls[1].at < DebounceWait
    /\ dbCalls[3].at - dbCalls[2].at < DebounceWait
    /\ dbCalls[3].args # dbCalls[2].args
    /\ dbRuns = <<[at |-> dbCalls[3].at + DebounceWait, args |-> dbCalls[3].args]>>

\* C23: after filterPrograms(criteria) a card is shown exactly when the
\* criteria is 'all' or equals the card's data-category, whatever the cards
\* showed before; so the same criteria twice gives the same as once, and
\* 'all' shows every card.
C23_FilterByCriteria ==
    lastCriteria # "none" =>
        /\ \A c \in CardIds :
              cardDisplay[c] = "" <=>
                  (lastCriteria = "all" \/ Cards[c] = lastCriteria)
        /\ lastCriteria = "all" => \A c \in CardIds : cardDisplay[c] = ""

C23_Witness ==
    /\ lastCriteria = "all"
    /\ \A c \in CardIds : cardDisplay[c] = ""

----------------------------------------------------------------------------
(* Properties of the form flows: timing and concurrency *)

\* A step shows a completion effect of the application form: a log record,
\* a tracking event, the success message, or the submit button restored.
AppEffect ==
    \/ Cardinality(AppRecords') > Cardinality(AppRecords)
    \/ Cardinality(TrackedEvents("application_submitted")')
          > Cardinality(TrackedEvents("application_submitted"))
    \/ (successDiv' # successDiv /\ successDiv'.display = "block")
    \/ (appBtn.disabled /\ ~appBtn'.disabled)
    \/ lastEvent' = "app:completed"

\* The same for the info request form.
InfoEffect ==
    \/ Cardinality(InfoRecords') > Cardinality(InfoRecords)
    \/ Cardinality(TrackedEvents("info_request_submitted")')
          > Cardinality(TrackedEvents("info_request_submitted"))
    \/ (infoSuccess.hidden /\ ~infoSuccess'.hidden)
    \/ (infoBtn.disabled /\ ~infoBtn'.disabled)
    \/ lastEvent' = "info:completed"

\* A timer of the kind is pending whose submission was accepted exactly
\* delay ms ago.
Elapsed(kind, delay) ==
    \E i \in 1..Len(timers) :
        /\ timers[i].kind = kind
        /\ now = timers[i].payload.submittedAt + delay

\* C24: a completion effect of a submission occurs only when its delay has
\* elapsed since it was accepted, 2000ms for the application and 1500ms
\* for the info request; every logged submission was accepted at least its
\* delay ago, and of an application and an info request accepted at the
\* same instant the info request is logged first.
C24_NoEffectBeforeDelay ==
    /\ [][ /\ AppEffect => Elapsed("application", ApplicationDelay)
           /\ InfoEffect => Elapsed("infoRequest", InfoRequestDelay) ]_vars
    /\ [](/\ \A k \in AppRecords :
                now >= console[k].data.submittedAt + ApplicationDelay
          /\ \A k \in InfoRecords :
                now >= console[k].data.submittedAt + InfoRequestDelay
          /\ \A k \in AppRecords : \A j \in InfoTimers :
                timers[j].payload.submittedAt # console[k].data.submittedAt
          /\ \A k \in AppRecords : \A m \in InfoRecords :
                console[m].data.submittedAt = console[k].data.submittedAt
                    => m < k)

C24_Witness ==
    /\ \E k \in AppRecords : \E m \in InfoRecords :
          /\ console[m].data.submittedAt = console[k].data.submittedAt
          /\ m < k
          /\ now = console[k].data.submittedAt + ApplicationDelay
    /\ lastEvent = "app:completed"

----------------------------------------------------------------------------
(* Properties of the navigation: the selected section *)

\* C25 as stated: after updateActiveNavigation a navigation link carries
\* 'active' exactly when window.scrollY lies in the range
\* [offsetTop - 100, offsetTop - 100 + clientHeight) of the section its
\* href names.
C25_ActiveIffInRange ==
    navUpdated =>
        \A l \in NavLinks :
            Links[l].id \in activeLinks <=>
                \E i \in SectionIx :
                    /\ InRange(scrollY, i)
                    /\ Links[l].href = "#" \o Sections[i].id

\* C25 as amended: a navigation link carries 'active' exactly when
\* window.scrollY lies in the range of the section its href names and in
\* the range of no section after that one in document order.
C25_ActiveIffLastInRange ==
    navUpdated =>
        \A l \in NavLinks :
            Links[l].id \in activeLinks <=>
                \E i \in SectionIx :
                    /\ InRange(scrollY, i)
                    /\ \A j \in SectionIx : j > i => ~InRange(scrollY, j)
                    /\ Links[l].href = "#" \o Sections[i].id

C25_Witness ==
    /\ navUpdated
    /\ scrollY = 2100
    /\ activeLinks = {}
    /\ clickResult.anchor = "navAdmissions"

----------------------------------------------------------------------------
(* Properties of the form flows: the payload *)

\* The timer that was set last.
LastTimer(ts) == ts[Len(ts)]

\* C26: the values a submission logs and tracks are those its form held
\* when it was accepted, with the time of acceptance: the handler reads
\* them into the timer it sets, an edit during the delay changes neither a
\* pending timer nor the console, and the callback logs and tracks what
\* its timer holds, whatever the fields hold then.
C26_ValuesAtAcceptance ==
    [][ /\ lastEvent' = "app:accepted" =>
              LastTimer(timers').payload = FormData(value, now)
        /\ lastEvent' = "info:accepted" =>
              LastTimer(timers').payload = Payload(value, now)
        /\ (value' # value /\ lastEvent' = "other") =>
              (timers' = timers /\ console' = console)
        /\ \A i \in 1..Len(timers) :
              (Fires(i) /\ timers[i].kind = "application"
                 /\ lastEvent' = "app:completed")
              => /\ console'[Len(console) + 1].data = timers[i].payload
                 /\ console'[Len(console) + 2].data.param = timers[i].payload.program
        /\ \A i \in 1..Len(timers) :
              (Fires(i) /\ timers[i].kind = "infoRequest"
                 /\ lastEvent' = "info:completed")
              => /\ console'[Len(console) + 1].data = timers[i].payload
                 /\ console'[Len(console) + 2].data.param = timers[i].payload.interest
      ]_vars

\* An info request was completed whose first name was cleared during the
\* delay: the record has the name, the field kept the class of the edit.
C26_Witness ==
    /\ lastEvent = "info:completed"
    /\ console[Len(console) - 1].msg = "Info request submitted"
    /\ console[Len(console) - 1].data.firstName = "Ada"
    /\ console[Len(console)].data.param = "nursing"
    /\ "is-invalid" \in classes["riFirstName"]

----------------------------------------------------------------------------
(* Properties of showSuccessMessage *)

\* C27: the success message stays displayed for 5000ms after the most
\* recent call of showSuccessMessage: until then it is not hidden, also
\* when the hide timer of an earlier call is still pending at that call.
C27_FullDuration ==
    \A t \in ShownAt(AppRecords, ApplicationDelay) :
        (/\ \A u \in ShownAt(AppRecords, ApplicationDelay) : u <= t
         /\ now < t + SuccessDuration)
        => successDiv.display = "block"

----------------------------------------------------------------------------
(* Properties of the validity classes *)

\* C28: no form field carries both 'is-valid' and 'is-invalid'.
C28_NeverBothClasses ==
    \A f \in Fields : ~({"is-valid", "is-invalid"} \subseteq classes[f])

----------------------------------------------------------------------------
(* Properties of the two form flows together *)

\* The pending timers of a kind, in the order they were set.
TimersOf(ts, kind) == SelectSeq(ts, LAMBDA t : t.kind = kind)

\* C29: an application and an info request can be pending together, and
\* the completion of one resets its own form and enables its own submit
\* button while the fields, the submit button and the pending timer of the
\* other form stay as they are.
C29_IndependentFlows ==
    [][ /\ lastEvent' = "app:completed" =>
              /\ \A f \in AppFieldSet : value'[f] = DefaultValue(f)
              /\ ~appBtn'.disabled
              /\ \A f \in InfoFieldSet : value'[f] = value[f]
              /\ infoBtn' = infoBtn
              /\ TimersOf(timers', "infoRequest") = TimersOf(timers, "infoRequest")
        /\ lastEvent' = "info:completed" =>
              /\ \A f \in InfoFieldSet : value'[f] = DefaultValue(f)
              /\ ~infoBtn'.disabled
              /\ \A f \in AppFieldSet : value'[f] = value[f]
              /\ appBtn' = appBtn
              /\ TimersOf(timers', "application") = TimersOf(timers, "application")
      ]_vars

\* The application has completed while an info request with its form
\* still filled is pending.
C29_Witness ==
    /\ lastEvent = "app:completed"
    /\ Pending("infoRequest")
    /\ infoBtn.disabled
    /\ value["riFirstName"] = "Ada"
    /\ value["firstName"] = ""
    /\ ~appBtn.disabled

----------------------------------------------------------------------------
(* Properties of the submit buttons' labels *)

\* C31: saving and restoring the label of a submit button is a round
\* trip: an enabled submit button, before any submission and after each
\* completed one, has the label of the markup, for both forms.
C31_LabelRoundTrip ==
    /\ ~appBtn.disabled => appBtn.content = appLabel
    /\ ~infoBtn.disabled => infoBtn.content = InfoLabel

----------------------------------------------------------------------------
(* Properties of the counters under several observers *)

\* The running intervals that write to element e.
IntervalsOf(e) == {i \in 1..Len(intervals) : intervals[i].element = e}

\* C32: with the counter observers of every initializeCounters call on
\* the page, a counter element has at most one interval running, and an
\* element that was reported intersecting, by however many observers, was
\* animated exactly once, by one observer, and carries 'counting'.
C32_OneAnimationPerCounter ==
    /\ Cardinality(CounterObservers) > 1
    /\ \A e \in counterEls :
          /\ Cardinality(IntervalsOf(e)) <= 1
          /\ inReports[e] >= 1 =>
                /\ started[e] = 1
                /\ Cardinality(triggeredBy[e]) = 1
                /\ e \in counting

\* An element was reported intersecting twice, so by both observers, and
\* its one interval is running.
C32_Witness ==
    \E e \in counterEls :
        /\ inReports[e] >= 2
        /\ started[e] = 1
        /\ Cardinality(IntervalsOf(e)) = 1
        /\ \E o \in CounterObservers : e \in counterObserved[o]

\* The number an interval shows: Math.floor(current).
Shown(iv) == iv.current50 \div Steps

\* The text for the number n of the counter with element e.
NumberText(e, n) == ToLocaleString(n) \o CounterOf(e).suffix

\* C33: while a counter is animated the number it shows does not drop from
\* one tick to the next and is at most the target; the tick that clears
\* the interval shows the target; once the interval is cleared the text
\* does not change again.
C33_MonotoneCounter ==
    /\ [](\A i \in 1..Len(intervals) :
             /\ Shown(intervals[i]) <= intervals[i].target
             /\ intervals[i].ticks >= 1 =>
                   counterText[intervals[i].element] =
                      NumberText(intervals[i].element, Shown(intervals[i])))
    /\ [][ \A e \in counterEls :
             /\ \A i \in IntervalsOf(e) :
                   /\ \A j \in IntervalsOf(e)' :
                         /\ Shown(intervals'[j]) >= Shown(intervals[i])
                         /\ intervals'[j].ticks > intervals[i].ticks =>
                               counterText'[e] = NumberText(e, Shown(intervals'[j]))
                   /\ IntervalsOf(e)' = {} =>
                         /\ CounterOf(e).target >= Shown(intervals[i])
                         /\ counterText'[e] = NumberText(e, CounterOf(e).target)
             /\ (e \in counting /\ IntervalsOf(e) = {}) =>
                   (counterText'[e] = counterText[e] /\ IntervalsOf(e)' = {})
         ]_vars

C33_Witness ==
    /\ "program-count" \in counting
    /\ IntervalsOf("program-count") = {}
    /\ counterText["program-count"] = "150+"
    /\ inReports["program-count"] >= 2

----------------------------------------------------------------------------
(* Properties of the navigation: clicks and overlapping sections *)

\* The link with the id a click result names.
LinkOf(id) == CHOOSE l \in LinkIx : Links[l].id = id

Matching(y) == {i \in SectionIx : InRange(y, i)}

\* C35: after updateActiveNavigation the active links are a function of
\* the scroll position and the layout alone: the links to the last section
\* in document order whose range holds the scroll position, also when
\* several ranges hold it, and none when no range holds it.
C35_LastMatchWins ==
    navUpdated =>
        activeLinks =
            IF Matching(scrollY) = {} THEN {}
            ELSE NavLinksTo(
                    Sections[CHOOSE i \in Matching(scrollY) :
                                \A j \in Matching(scrollY) : j <= i].id)

C35_Witness ==
    /\ navUpdated
    /\ scrollY = 1150
    /\ Cardinality(Matching(scrollY)) = 2
    /\ activeLinks = {"navFeatured"}

----------------------------------------------------------------------------
(* Properties of the marker classes *)

\* C36: no step removes a marker class: an element that carries
\* 'counting', 'show' or 'visible' carries it after every intersection
\* report, interval tick, scroll, click and form event.
C36_MarkersMonotone ==
    [][ /\ counting \subseteq counting'
        /\ shown \subseteq shown'
        /\ visibleCls \subseteq visibleCls' ]_vars

\* Every marker class is set, the fade-in elements were reported again,
\* and a scroll, a click and a rejected info request have been handled.
C36_Witness ==
    /\ counterEls # {}
    /\ counting = counterEls
    /\ shown = FadeEls
    /\ visibleCls = RevealEls
    /\ \A f \in FadeEls : fadeHits[f] >= 2
    /\ navUpdated
    /\ clickResult.anchor = "navAbout"
    /\ lastEvent = "info:rejected"

====
